---- MODULE Spec2Model ----
(***************************************************************************)
(* Model of the dictation trigger in main.go: the keyboard listener        *)
(* (listenForKeyboardEvents / handleKeyEvent / handleDoublePress /         *)
(* handleSinglePress), the shared flag `dictating`, the cancellable        *)
(* context, and the dictation sessions (startTranscription / recordAudio   *)
(* with its capture goroutine / saveAudioToFile / transcribeAudio).        *)
(*                                                                         *)
(* Time is counted in units of 100 ms.  The listener reads time.Now() only *)
(* to compute now.Sub(lastGlobePressTime), so the model keeps that         *)
(* duration (sinceGlobePress) and lets Tick advance it.  The accesses to   *)
(* `dictating` from different goroutines are single bool loads and stores; *)
(* every interleaving of them is explored.                                 *)
(*                                                                         *)
(* Spec is the whole program.  Its state space is too large to enumerate,  *)
(* so the properties are checked under specifications that restrict what   *)
(* the environment does: SpecKeys (every key, coarse clock, MaxSolo        *)
(* sessions), SpecGlobe (trigger presses, fine clock, MaxSolo sessions),   *)
(* SpecRace (trigger presses, fine clock, MaxSessions sessions) and        *)
(* SpecScenario (the scripted key sequence of the README usage).           *)
(* SpecKeysFair and SpecStopFair add the scheduling of the goroutines,     *)
(* for the properties that say that something happens in the end.          *)
(***************************************************************************)
EXTENDS Integers, FiniteSets, Sequences, TLC

\* ---- bounds ----
MaxSessions == 2
MaxBlocks == 1
MaxSolo == 1

\* ---- program constants ----
globeKeyCode == 179
ctrlRawcode == 59
cRawcode == 8
doublePressTime == 5

Sessions == 1..MaxSessions
Event(code, kind) == [Rawcode |-> code, Kind |-> kind]
\* the key events the hook delivers; 40 stands for any other key
KeyEvents ==
    {Event(ctrlRawcode, "KeyDown"), Event(ctrlRawcode, "KeyHold"), Event(ctrlRawcode, "KeyUp"),
     Event(cRawcode, "KeyDown"), Event(cRawcode, "KeyUp"),
     Event(globeKeyCode, "KeyDown"), Event(globeKeyCode, "KeyHold"),
     Event(40, "KeyDown")}

VARIABLES
    ctx,              \* "live" | "cancelled"
    dictating,        \* the package-level flag
    sinceGlobePress,  \* now.Sub(lastGlobePressTime), saturated at doublePressTime
    ctrlPressed,      \* local of listenForKeyboardEvents
    lpc,              \* listener: "select" | "handle" | "done" (returned)
    ev,               \* the event received by the select, while it is handled
    class,            \* what the event handled last was taken for:
                      \* "none" | "single" | "double" | "quit"
    runReturned,      \* run() has returned, main returns, the process is gone
    launched,         \* number of `go startTranscription` executed
    sess,             \* per session: position, capture goroutine, buffer
    script            \* position in Script; only SpecScenario advances it

vars == <<ctx, dictating, sinceGlobePress, ctrlPressed, lpc, ev, class, runReturned,
          launched, sess, script>>

NoEvent == Event(0, "none")

\* rec: where startTranscription is; cap: where the capture goroutine is;
\* allSamples: blocks appended;
\* sig: the OS signal arrived while this session was capturing, and its recordAudio
\* has not returned since
NewSession == [rec |-> "none", cap |-> "none", allSamples |-> 0, sig |-> FALSE]

Init ==
    /\ ctx = "live"
    /\ dictating = FALSE
    /\ sinceGlobePress = doublePressTime
    /\ ctrlPressed = FALSE
    /\ lpc = "select"
    /\ ev = NoEvent
    /\ class = "none"
    /\ runReturned = FALSE
    /\ launched = 0
    /\ sess = [s \in Sessions |-> NewSession]
    /\ script = 1

\* ---- derived notions ----
RecordingStages == {"open", "start", "wait", "reset", "stop", "save"}
UploadStages == {"transcribe", "decode"}
ErrorStages == {"errOpen", "errStart", "errStop", "errSave", "errUpload", "errDecode"}
CaptureLoop == {"check", "select", "read"}

\* the stream is open from OpenDefaultStream until the deferred stream.Close()
HoldsStream(s) == sess[s].rec \in {"start", "wait", "reset", "stop", "save"}
Capturing(s) == sess[s].cap \in CaptureLoop
InSession(s) == sess[s].rec \in RecordingStages \cup UploadStages \cup {"inject"}
IsPress(e) == e.Kind \in {"KeyHold", "KeyDown"}
GlobePress(e) == IsPress(e) /\ e.Rawcode = globeKeyCode

\* ---- the clock ----
\* d units of time pass
Tick(d) ==
    /\ ~runReturned
    /\ sinceGlobePress' = IF sinceGlobePress + d < doublePressTime
                          THEN sinceGlobePress + d ELSE doublePressTime
    /\ UNCHANGED <<ctx, dictating, ctrlPressed, lpc, ev, class, runReturned,
                   launched, sess>>

\* ---- the classifier ----
\* variant: a double press while recording stops the recording
handleDoublePress_Toggle ==
    IF ~dictating
    THEN /\ dictating' = TRUE
         /\ launched' = launched + 1
         /\ sess' = [sess EXCEPT ![launched + 1].rec = "open"]
    ELSE /\ dictating' = FALSE
         /\ UNCHANGED <<launched, sess>>

handleDoublePress ==
    IF ~dictating
    THEN /\ dictating' = TRUE
         /\ launched' = launched + 1
         /\ sess' = [sess EXCEPT ![launched + 1].rec = "open"]
    ELSE UNCHANGED <<dictating, launched, sess>>

\* variant: a single press never stops the recording
handleSinglePress_Ignore == UNCHANGED <<dictating, launched, sess>>

handleSinglePress ==
    IF dictating
    THEN /\ dictating' = FALSE
         /\ UNCHANGED <<launched, sess>>
    ELSE UNCHANGED <<dictating, launched, sess>>

\* variant: a press exactly one window after the previous one counts as double
IsDoublePress_Inclusive(elapsed) == elapsed <= doublePressTime

IsDoublePress(elapsed) == elapsed < doublePressTime

\* variant: the time of the press is recorded only for a double press
handleKeyEvent_NoUpdate(e) ==
    IF e.Rawcode # globeKeyCode
    THEN /\ class' = "none"
         /\ UNCHANGED <<sinceGlobePress, dictating, launched, sess>>
    ELSE IF IsDoublePress(sinceGlobePress)
         THEN class' = "double" /\ handleDoublePress /\ sinceGlobePress' = 0
         ELSE class' = "single" /\ handleSinglePress /\ UNCHANGED sinceGlobePress

\* variant: the time of the press is recorded for every key, before the key is looked at
handleKeyEvent_AnyKey(e) ==
    IF e.Rawcode # globeKeyCode
    THEN /\ class' = "none"
         /\ sinceGlobePress' = 0
         /\ UNCHANGED <<dictating, launched, sess>>
    ELSE /\ IF IsDoublePress(sinceGlobePress)
            THEN class' = "double" /\ handleDoublePress
            ELSE class' = "single" /\ handleSinglePress
         /\ sinceGlobePress' = 0

handleKeyEvent(e) ==
    IF e.Rawcode # globeKeyCode
    THEN /\ class' = "none"
         /\ UNCHANGED <<sinceGlobePress, dictating, launched, sess>>
    ELSE /\ IF IsDoublePress(sinceGlobePress)
            THEN class' = "double" /\ handleDoublePress
            ELSE class' = "single" /\ handleSinglePress
         /\ sinceGlobePress' = 0

\* variant: Ctrl+C cancels the context but the loop goes on
handleEvent_NoReturn(e) ==
    IF IsPress(e)
    THEN IF e.Rawcode = ctrlRawcode
         THEN /\ ctrlPressed' = TRUE
              /\ lpc' = "select"
              /\ class' = "none"
              /\ UNCHANGED <<ctx, sinceGlobePress, dictating, launched, sess>>
         ELSE IF e.Rawcode = cRawcode /\ ctrlPressed
         THEN /\ ctx' = "cancelled"
              /\ lpc' = "select"
              /\ class' = "quit"
              /\ UNCHANGED <<ctrlPressed, sinceGlobePress, dictating, launched, sess>>
         ELSE /\ ctrlPressed' = FALSE
              /\ lpc' = "select"
              /\ handleKeyEvent(e)
              /\ UNCHANGED ctx
    ELSE /\ ctrlPressed' = IF e.Rawcode = ctrlRawcode THEN FALSE ELSE ctrlPressed
         /\ lpc' = "select"
         /\ class' = "none"
         /\ UNCHANGED <<ctx, sinceGlobePress, dictating, launched, sess>>

\* body of `case ev := <-evChan`
handleEvent(e) ==
    IF IsPress(e)
    THEN IF e.Rawcode = ctrlRawcode
         THEN /\ ctrlPressed' = TRUE
              /\ lpc' = "select"
              /\ class' = "none"
              /\ UNCHANGED <<ctx, sinceGlobePress, dictating, launched, sess>>
         ELSE IF e.Rawcode = cRawcode /\ ctrlPressed
         THEN /\ ctx' = "cancelled"
              /\ lpc' = "done"
              /\ class' = "quit"
              /\ UNCHANGED <<ctrlPressed, sinceGlobePress, dictating, launched, sess>>
         ELSE /\ ctrlPressed' = FALSE
              /\ lpc' = "select"
              /\ handleKeyEvent(e)
              /\ UNCHANGED ctx
    ELSE /\ ctrlPressed' = IF e.Rawcode = ctrlRawcode THEN FALSE ELSE ctrlPressed
         /\ lpc' = "select"
         /\ class' = "none"
         /\ UNCHANGED <<ctx, sinceGlobePress, dictating, launched, sess>>

\* `case ev := <-evChan` of the listener's select
Receive(e) ==
    /\ lpc = "select"
    /\ ~runReturned
    /\ lpc' = "handle"
    /\ ev' = e
    /\ class' = "none"
    /\ UNCHANGED <<ctx, dictating, sinceGlobePress, ctrlPressed, runReturned,
                   launched, sess>>

Handle(cap) ==
    /\ lpc = "handle"
    /\ ~runReturned
    /\ handleEvent(ev)
    /\ launched' <= cap
    /\ ev' = NoEvent
    /\ UNCHANGED <<runReturned, script>>

\* variant: the listener waits on a context that nothing cancels
ListenerCtxDone_Background ==
    /\ lpc = "select"
    /\ ctx = "never"
    /\ lpc' = "done"
    /\ UNCHANGED <<ctx, dictating, sinceGlobePress, ctrlPressed, ev, class, runReturned,
                   launched, sess, script>>

\* variant: the listener also stops once a session has run to its end
ListenerCtxDone_SessionEnd ==
    /\ lpc = "select"
    /\ ctx = "cancelled" \/ \E s \in Sessions : sess[s].rec = "done"
    /\ lpc' = "done"
    /\ UNCHANGED <<ctx, dictating, sinceGlobePress, ctrlPressed, ev, class, runReturned,
                   launched, sess, script>>

\* `case <-ctx.Done()` of the listener's select
ListenerCtxDone ==
    /\ lpc = "select"
    /\ ctx = "cancelled"
    /\ lpc' = "done"
    /\ UNCHANGED <<ctx, dictating, sinceGlobePress, ctrlPressed, ev, class, runReturned,
                   launched, sess, script>>

\* ---- the lifecycle ----
\* SIGINT / SIGTERM delivered to the NotifyContext
OSSignal ==
    /\ ctx = "live"
    /\ ~runReturned
    /\ ctx' = "cancelled"
    /\ sess' = [s \in Sessions |->
                   [sess[s] EXCEPT !.sig = sess[s].rec = "wait" /\ sess[s].cap \in CaptureLoop]]
    /\ UNCHANGED <<dictating, sinceGlobePress, ctrlPressed, lpc, ev, class, runReturned,
                   launched, script>>

\* listenForKeyboardEvents returned: run returns, main returns, the process exits
RunReturn ==
    /\ lpc = "done"
    /\ ~runReturned
    /\ runReturned' = TRUE
    /\ ctx' = "cancelled"
    /\ UNCHANGED <<dictating, sinceGlobePress, ctrlPressed, lpc, ev, class,
                   launched, sess, script>>

\* ---- a dictation session ----
SessOnly == <<ctx, sinceGlobePress, ctrlPressed, lpc, ev, class, runReturned,
              launched, script>>

Goto(s, stage) == sess' = [sess EXCEPT ![s].rec = stage]
\* recordAudio returns
Return(s, stage) == sess' = [sess EXCEPT ![s].rec = stage, ![s].sig = FALSE]

OpenStream(s) ==
    /\ ~runReturned
    /\ sess[s].rec = "open"
    /\ \/ Goto(s, "start")
       \/ Goto(s, "errOpen")
    /\ UNCHANGED <<SessOnly, dictating>>

StartStream(s) ==
    /\ ~runReturned
    /\ sess[s].rec = "start"
    /\ \/ sess' = [sess EXCEPT ![s].rec = "wait", ![s].cap = "check"]
       \/ Goto(s, "errStart")
    /\ UNCHANGED <<SessOnly, dictating>>

\* `for dictating {` ; leaving the loop closes recordingDone
CaptureCheck(s) ==
    /\ ~runReturned
    /\ sess[s].cap = "check"
    /\ sess' = [sess EXCEPT ![s].cap = IF dictating THEN "select" ELSE "closed"]
    /\ UNCHANGED <<SessOnly, dictating>>

\* variant: the loop body reads a block without looking at the context
CaptureSelect_Blind(s) ==
    /\ ~runReturned
    /\ sess[s].cap = "select"
    /\ sess' = [sess EXCEPT ![s].cap = "read"]
    /\ UNCHANGED <<SessOnly, dictating>>

\* `select { case <-ctx.Done(): return; default:` of the capture loop
CaptureSelect(s) ==
    /\ ~runReturned
    /\ sess[s].cap = "select"
    /\ sess' = [sess EXCEPT ![s].cap = IF ctx = "cancelled" THEN "ctxDone" ELSE "read"]
    /\ UNCHANGED <<SessOnly, dictating>>

Append1(n) == IF n < MaxBlocks THEN n + 1 ELSE n

CaptureRead(s) ==
    /\ ~runReturned
    /\ sess[s].cap = "read"
    /\ \/ sess' = [sess EXCEPT ![s].cap = "check",
                               ![s].allSamples = Append1(sess[s].allSamples)]
       \/ sess' = [sess EXCEPT ![s].cap = "readErr"]
    /\ UNCHANGED <<SessOnly, dictating>>

WaitRecording(s) ==
    /\ ~runReturned
    /\ sess[s].rec = "wait"
    /\ ctx = "cancelled" \/ sess[s].cap = "closed"
    /\ Goto(s, "reset")
    /\ UNCHANGED <<SessOnly, dictating>>

ResetFlag(s) ==
    /\ ~runReturned
    /\ sess[s].rec = "reset"
    /\ dictating' = FALSE
    /\ Goto(s, "stop")
    /\ UNCHANGED SessOnly

StopStream(s) ==
    /\ ~runReturned
    /\ sess[s].rec = "stop"
    /\ \/ Goto(s, "save")
       \/ Return(s, "errStop")
    /\ UNCHANGED <<SessOnly, dictating>>

saveAudioToFile(s) ==
    /\ ~runReturned
    /\ sess[s].rec = "save"
    /\ \/ Return(s, "transcribe")
       \/ Return(s, "errSave")
    /\ UNCHANGED <<SessOnly, dictating>>

\* transcribeAudio up to client.Do
Upload(s) ==
    /\ ~runReturned
    /\ sess[s].rec = "transcribe"
    /\ \/ Goto(s, "decode")
       \/ Goto(s, "errUpload")
    /\ UNCHANGED <<SessOnly, dictating>>

\* transcribeAudio from the JSON decode on
Decode(s) ==
    /\ ~runReturned
    /\ sess[s].rec = "decode"
    /\ \/ Goto(s, "inject")
       \/ Goto(s, "errDecode")
    /\ UNCHANGED <<SessOnly, dictating>>

\* robotgo.TypeStr
Inject(s) ==
    /\ ~runReturned
    /\ sess[s].rec = "inject"
    /\ Goto(s, "done")
    /\ UNCHANGED <<SessOnly, dictating>>

SessionStep(s) ==
    \/ OpenStream(s)
    \/ StartStream(s)
    \/ CaptureCheck(s)
    \/ CaptureSelect(s)
    \/ CaptureRead(s)
    \/ WaitRecording(s)
    \/ ResetFlag(s)
    \/ StopStream(s)
    \/ saveAudioToFile(s)
    \/ Upload(s)
    \/ Decode(s)
    \/ Inject(s)

Others(cap, d) ==
    \/ Handle(cap)
    \/ Tick(d) /\ UNCHANGED script
    \/ ListenerCtxDone
    \/ OSSignal
    \/ RunReturn
    \/ \E s \in Sessions : SessionStep(s)

GlobePresses == {Event(globeKeyCode, "KeyDown"), Event(globeKeyCode, "KeyHold")}

\* the whole program
Next ==
    \/ \E e \in KeyEvents : Receive(e) /\ UNCHANGED script
    \/ Others(MaxSessions, 1)

\* every key, the clock jumps by a whole window, at most MaxSolo sessions
NextKeys ==
    \/ \E e \in KeyEvents : Receive(e) /\ UNCHANGED script
    \/ Others(MaxSolo, doublePressTime)

\* presses of the trigger key only, at most MaxSolo sessions
NextGlobe ==
    \/ \E e \in GlobePresses : Receive(e) /\ UNCHANGED script
    \/ Others(MaxSolo, 1)

\* presses of the trigger key only, at most MaxSessions sessions
NextRace ==
    \/ \E e \in GlobePresses : Receive(e) /\ UNCHANGED script
    \/ Others(MaxSessions, 1)

\* README usage (double press to start, single press to stop), with the timing of
\* the scenario: trigger presses at t0, t0 + 200 ms and t0 + 900 ms
Script == <<"press", "tick", "tick", "press",
            "tick", "tick", "tick", "tick", "tick", "tick", "tick", "press">>

ScriptPress ==
    /\ script <= Len(Script)
    /\ Script[script] = "press"
    /\ Receive(Event(globeKeyCode, "KeyDown"))
    /\ script' = script + 1

\* the listener handles an event as soon as it receives it
ScriptTick ==
    /\ script <= Len(Script)
    /\ Script[script] = "tick"
    /\ lpc = "select"
    /\ Tick(1)
    /\ script' = script + 1

NextScenario ==
    \/ ScriptPress
    \/ ScriptTick
    \/ Handle(MaxSolo)
    \/ \E s \in Sessions : SessionStep(s)

Spec == Init /\ [][Next]_vars
SpecKeys == Init /\ [][NextKeys]_vars
SpecGlobe == Init /\ [][NextGlobe]_vars
SpecRace == Init /\ [][NextRace]_vars
SpecScenario == Init /\ [][NextScenario]_vars

\* The user makes no press that could be taken for a double press once cap sessions
\* were launched: e is another event, or a trigger press that comes a full window
\* after the previous one.  With this the bound on the sessions never holds back the
\* handling of a received event.
Deliverable(e, cap) ==
    \/ ~GlobePress(e)
    \/ launched < cap
    \/ sinceGlobePress = doublePressTime

NextKeysFair ==
    \/ \E e \in KeyEvents : Deliverable(e, MaxSolo) /\ Receive(e) /\ UNCHANGED script
    \/ Others(MaxSolo, doublePressTime)

\* NextKeysFair with the scheduling of the listener goroutine: the handling of a
\* received event runs to its end (straight-line code), run returns once the listener
\* has returned, and a select that finds the context cancelled again and again takes
\* that case at some point (Go chooses uniformly at random among the ready cases,
\* so a key event cannot win every time).  Nothing is assumed about the sessions.
SpecKeysFair ==
    /\ Init
    /\ [][NextKeysFair]_vars
    /\ WF_vars(Handle(MaxSolo))
    /\ SF_vars(ListenerCtxDone)
    /\ WF_vars(RunReturn)

\* the capture goroutine of session s, and the goroutine of its startTranscription
CaptureStep(s) == CaptureCheck(s) \/ CaptureSelect(s) \/ CaptureRead(s)
MainStep(s) ==
    \/ OpenStream(s)
    \/ StartStream(s)
    \/ WaitRecording(s)
    \/ ResetFlag(s)
    \/ StopStream(s)
    \/ saveAudioToFile(s)
    \/ Upload(s)
    \/ Decode(s)
    \/ Inject(s)

\* trigger presses, a fine clock, at most MaxSessions sessions, no cancellation
NextStop ==
    \/ \E e \in GlobePresses : Deliverable(e, MaxSessions) /\ Receive(e) /\ UNCHANGED script
    \/ Handle(MaxSessions)
    \/ Tick(1) /\ UNCHANGED script
    \/ \E s \in Sessions : SessionStep(s)

\* NextStop with the scheduling of the goroutines: the handling of a received event
\* runs to its end, and every goroutine of every session keeps being scheduled (a
\* block read returns, with a block or with an error).  Nothing is assumed about the
\* user or the clock.
SpecStopFair ==
    /\ Init
    /\ [][NextStop]_vars
    /\ WF_vars(Handle(MaxSessions))
    /\ \A s \in Sessions : WF_vars(CaptureStep(s)) /\ WF_vars(MainStep(s))

\* ---- properties ----
TypeOK ==
    /\ ctx \in {"live", "cancelled"}
    /\ dictating \in BOOLEAN
    /\ sinceGlobePress \in 0..doublePressTime
    /\ ctrlPressed \in BOOLEAN
    /\ lpc \in {"select", "handle", "done"}
    /\ class \in {"none", "single", "double", "quit"}
    /\ launched \in 0..MaxSessions
    /\ \A s \in Sessions : s > launched <=> sess[s].rec = "none"

\* the step in which the listener handles the event it received
HandleStep == lpc = "handle" /\ lpc' # "handle"

\* C1: a press classified as a double press while the flag is idle sets the flag and
\* launches exactly one session (the next one, at its first stage, every other
\* session untouched); while the flag is recording it changes neither the flag nor
\* any session.  A session is launched in exactly the steps that take the flag from
\* idle to recording.
C1_DoublePress ==
    [][ /\ (HandleStep /\ class' = "double") =>
               IF ~dictating
               THEN /\ dictating'
                    /\ launched' = launched + 1
                    /\ sess' = [sess EXCEPT ![launched + 1].rec = "open"]
               ELSE /\ dictating'
                    /\ launched' = launched
                    /\ sess' = sess
        /\ (launched' # launched) = (~dictating /\ dictating')
      ]_vars

C1_Witness ==
    /\ class = "double"
    /\ dictating
    /\ launched = 1
    /\ sess[1].rec = "open"

\* C2: a press classified as a single press leaves the flag idle: recording becomes
\* idle, idle stays idle; it launches no session and touches none.
C2_SinglePress ==
    [][ (HandleStep /\ class' = "single") =>
            /\ ~dictating'
            /\ launched' = launched
            /\ sess' = sess
      ]_vars

C2_Witness ==
    /\ class = "single"
    /\ ~dictating
    /\ ctx = "live"
    /\ sess[1].rec = "wait"
    /\ Capturing(1)

\* C3: a down/hold of the trigger key is a double press iff less than the window has
\* passed since the previous trigger press, else a single press; the press time is
\* recorded whatever the classification; before the first trigger press the elapsed
\* time is not below the window, and only a trigger press brings it below.
C3_Classification ==
    /\ sinceGlobePress = doublePressTime
    /\ [][ /\ (HandleStep /\ GlobePress(ev)) =>
                 /\ class' = IF sinceGlobePress < doublePressTime
                              THEN "double" ELSE "single"
                 /\ sinceGlobePress' = 0
           /\ (HandleStep /\ ~GlobePress(ev)) => class' \notin {"single", "double"}
           /\ (sinceGlobePress' < sinceGlobePress) => (HandleStep /\ GlobePress(ev))
        ]_vars

C3_Witness ==
    /\ lpc = "select"
    /\ class = "single"
    /\ sinceGlobePress = 0
    /\ launched = 1

\* number of scripted presses the listener has handled
ScriptPresses ==
    Cardinality({i \in 1..(script - 1) : Script[i] = "press"})
        - (IF lpc = "handle" THEN 1 ELSE 0)

\* C4: with trigger presses at t0, t0 + 200 ms and t0 + 900 ms: the first press starts
\* nothing, the second launches the one session and sets the flag, the third sets
\* the flag back to idle, and from then on the session's capture loop starts no
\* further iteration.
C4_Scenario ==
    /\ [](ScriptPresses <= 1 => launched = 0 /\ ~dictating)
    /\ [](ScriptPresses = 2 => launched = 1 /\ dictating)
    /\ [](ScriptPresses = 3 => launched = 1 /\ ~dictating)
    /\ [][(ScriptPresses = 3 /\ sess[1].cap = "check") => sess'[1].cap # "select"]_vars

C4_Witness ==
    /\ script = Len(Script) + 1
    /\ lpc = "select"
    /\ sess[1].cap = "closed"
    /\ sess[1].rec = "transcribe"

\* C5: a down/hold of Ctrl sets ctrlPressed, which only a Ctrl key-up or a down/hold
\* of another key clears; a down/hold of C handled while it is set cancels the
\* context and ends the listener loop without touching flag or sessions; the
\* context never becomes live again, and once the loop has ended no event is
\* handled: no classification, no launch, the flag is never set.
C5_QuitChord ==
    [][ /\ (HandleStep /\ IsPress(ev) /\ ev.Rawcode = ctrlRawcode) => ctrlPressed'
        /\ (ctrlPressed /\ ~ctrlPressed') =>
               /\ HandleStep
               /\ \/ ev = Event(ctrlRawcode, "KeyUp")
                  \/ IsPress(ev) /\ ev.Rawcode # ctrlRawcode
        /\ (HandleStep /\ ctrlPressed /\ IsPress(ev) /\ ev.Rawcode = cRawcode) =>
               /\ ctx' = "cancelled"
               /\ lpc' = "done"
               /\ class' = "quit"
               /\ UNCHANGED <<dictating, launched, sess>>
        /\ (ctx = "cancelled") => (ctx' = "cancelled")
        /\ (lpc = "done") =>
               /\ lpc' = "done"
               /\ UNCHANGED <<ev, class, ctrlPressed, launched>>
               /\ sinceGlobePress' >= sinceGlobePress
               /\ (dictating' => dictating)
      ]_vars

C5_Witness ==
    /\ class = "quit"
    /\ lpc = "done"
    /\ ctx = "cancelled"
    /\ launched = 1
    /\ Capturing(1)

\* sessions that hold an open audio stream or run their capture loop
ActiveRecorders == {s \in Sessions : HoldsStream(s) \/ Capturing(s)}

\* C6: while the lifecycle is live, at most one session holds an audio stream or
\* runs its capture loop.
C6_AsClaimed == ctx = "live" => Cardinality(ActiveRecorders) <= 1

\* C7: while the lifecycle is live, the classifier launches a session only when no
\* earlier session is still uploading, decoding or injecting.
C7_AsClaimed ==
    [][ (ctx = "live" /\ launched' = launched + 1) =>
            \A s \in Sessions : sess[s].rec \notin UploadStages \cup {"inject"}
      ]_vars

\* the step in which the recordAudio of session s returns
RecordAudioReturns(s) ==
    sess[s].rec \in RecordingStages /\ sess'[s].rec \notin RecordingStages

\* C8: when a recording attempt ends, whatever its outcome, the flag is idle.
C8_AsClaimed ==
    [][\A s \in Sessions : RecordAudioReturns(s) => ~dictating']_vars

\* C9: a session in which a block read failed is aborted: it never goes on to
\* upload its recording or to inject text.
C9_AsClaimed ==
    \A s \in Sessions :
        sess[s].cap = "readErr" => sess[s].rec \notin UploadStages \cup {"inject", "done"}

\* C10: when the process is gone, the recordAudio of every session that was capturing
\* when the OS signal arrived has returned (its file is written, or an I/O step failed).
C10_AsClaimed == runReturned => \A s \in Sessions : ~sess[s].sig

\* C11: while the lifecycle is live, when the decode of the endpoint's response
\* fails the session ends there, without injecting text, and the flag is idle at that
\* moment (so that the next double press starts a new session).
C11_AsClaimed ==
    [][ \A s \in Sessions :
            (ctx = "live" /\ sess[s].rec = "decode" /\ sess'[s].rec = "errDecode") =>
                ~dictating'
      ]_vars

\* C12: the context never goes back from cancelled to live; run returns only after
\* the context is cancelled and the listener has returned; once the context is
\* cancelled (OS signal or quit chord) the listener returns and run returns, whatever
\* key events keep arriving and whatever the sessions do.
C12_Lifecycle ==
    /\ [][ctx = "cancelled" => ctx' = "cancelled"]_vars
    /\ [][(~runReturned /\ runReturned') => (ctx = "cancelled" /\ lpc = "done")]_vars
    /\ (ctx = "cancelled") ~> (lpc = "done")
    /\ (ctx = "cancelled") ~> runReturned

\* run has returned after an OS signal while the session was still recording
C12_Witness ==
    /\ runReturned
    /\ class = "none"
    /\ sess[1].rec = "wait"
    /\ sess[1].cap = "read"

\* the event being handled completes the quit chord
QuitChord == lpc = "handle" /\ IsPress(ev) /\ ev.Rawcode = cRawcode /\ ctrlPressed

\* C13: the listener loop ends only in its select with the context cancelled, or in
\* the handling of the C of a Ctrl+C chord; the handling of any other event goes back
\* to the select, and no step of a session (launch, progress, completion, failure)
\* moves the listener.
C13_LoopExit ==
    [][ /\ (lpc # "done" /\ lpc' = "done") => ((lpc = "select" /\ ctx = "cancelled") \/ QuitChord)
        /\ (HandleStep /\ ~QuitChord) => lpc' = "select"
        /\ (sess' # sess /\ ~HandleStep) => lpc' = lpc
      ]_vars

\* the loop ended on a cancellation, after a session had completed while it ran
C13_Witness ==
    /\ lpc = "done"
    /\ class = "double"
    /\ ~runReturned
    /\ sess[1].rec = "done"

\* the moves of startTranscription from one stage to the next
StageOrder ==
    {<<"none", "open">>, <<"open", "start">>, <<"start", "wait">>, <<"wait", "reset">>,
     <<"reset", "stop">>, <<"stop", "save">>, <<"save", "transcribe">>,
     <<"transcribe", "decode">>, <<"decode", "inject">>, <<"inject", "done">>,
     <<"open", "errOpen">>, <<"start", "errStart">>, <<"stop", "errStop">>,
     <<"save", "errSave">>, <<"transcribe", "errUpload">>, <<"decode", "errDecode">>}

\* a step in which every session moves along StageOrder only, and a session is
\* launched only by the listener, one per launch
StageOrderStep ==
    /\ \A s \in Sessions :
           sess'[s].rec # sess[s].rec => <<sess[s].rec, sess'[s].rec>> \in StageOrder
    /\ (launched' # launched) =>
           /\ HandleStep
           /\ launched' = launched + 1
           /\ \A s \in Sessions : (sess[s].rec = "none" /\ sess'[s].rec # "none") <=> s = launched'
    /\ (launched' = launched) => \A s \in Sessions : sess[s].rec = "none" => sess'[s].rec = "none"

\* C14: the stages of a session run in the order record, upload/transcribe, inject,
\* each at most once and one sequence per launch: the upload starts only after the
\* stream was stopped and the file written, the text is injected only after a
\* successful decode; and a session whose recording failed (open, start, block read,
\* stop, save) or whose transcription failed never injects text.
C14_AsClaimed ==
    [][ /\ StageOrderStep
        /\ \A s \in Sessions :
               (sess[s].rec # "inject" /\ sess'[s].rec = "inject") => sess[s].cap # "readErr"
      ]_vars

C16_Frame ==
    [][ /\ (HandleStep /\ ~GlobePress(ev)) =>
               /\ UNCHANGED <<sinceGlobePress, dictating, launched, sess>>
               /\ class' \in {"none", "quit"}
        /\ (HandleStep /\ GlobePress(ev) /\ sinceGlobePress < doublePressTime) =>
               /\ class' = "double"
               /\ ~dictating => launched' = launched + 1
      ]_vars

\* a trigger press is about to be handled, within the window of the previous one, and
\* a Ctrl down was handled since (the handling of a trigger press clears ctrlPressed)
C16_Witness ==
    /\ lpc = "handle"
    /\ GlobePress(ev)
    /\ ctrlPressed
    /\ sinceGlobePress < doublePressTime
    /\ ~dictating
    /\ launched = 0

\* session s is the one recording: its stream is started and its capture loop runs
Recording(s) == sess[s].rec = "wait" /\ Capturing(s)

\* C17: while the lifecycle is live, the reset of the flag at the end of a session's
\* recording never takes the flag from recording to idle while a session launched
\* later is recording.
C17_AsClaimed ==
    [][ \A s \in Sessions :
            (ctx = "live" /\ sess[s].rec = "reset" /\ sess'[s].rec = "stop"
                 /\ dictating /\ ~dictating') =>
                ~\E t \in Sessions : t > s /\ Recording(t)
      ]_vars

\* a single press was handled last and the flag is idle, while session s is recording
StopPending(s) ==
    /\ ctx = "live"
    /\ lpc = "select"
    /\ class = "single"
    /\ ~dictating
    /\ Recording(s)

\* C18: once a stop gesture has left the flag idle while a session is recording, the
\* capture loop of that session comes to its end, whatever is pressed afterwards.
C18_AsClaimed == \A s \in Sessions : StopPending(s) ~> ~Capturing(s)

\* C19: once the context is cancelled, the handling of a key event by the listener
\* launches no session and does not change the flag.
C19_AsClaimed ==
    [][ (ctx = "cancelled" /\ HandleStep) =>
            (launched' = launched /\ dictating' = dictating)
      ]_vars

\* recordAudio of session s is past its wait: it stops the stream and writes the file
Finalizing(s) == sess[s].rec \in {"reset", "stop", "save"}

\* C20: the buffer of a session changes only by an append of its own capture loop
\* while the session is still waiting for the recording to end; once recordAudio is
\* past the wait, the capture goroutine begins no block read and appends nothing.
C20_AsClaimed ==
    [][ \A s \in Sessions :
            /\ (sess'[s].allSamples # sess[s].allSamples) =>
                   (sess[s].rec = "wait" /\ sess[s].cap = "read")
            /\ Finalizing(s) =>
                   /\ ~(sess[s].cap = "read" /\ sess'[s].cap = "check")
                   /\ ~(sess[s].cap = "select" /\ sess'[s].cap = "read")
      ]_vars
====
